---- MODULE Spec2Model ----
(***************************************************************************)
(* Geo Tools Suite (src/app.py): the Parcel Plotter and the Nigeria LGA    *)
(* Finder of the Streamlit script, as a state machine over script runs.    *)
(*                                                                         *)
(* Streamlit re-executes the whole script on every interaction; one action *)
(* of this module is one such run.  st.session_state and the widget values *)
(* survive between runs, everything else is rebuilt by the run.            *)
(*                                                                         *)
(* Units.  Coordinates are whole metres (Python tuple (e, n) is <<e, n>>). *)
(* Values the script prints with two decimals are held in hundredths       *)
(* (Cent per unit); angles are held in micro-degrees (Deg per degree)      *)
(* until they are formatted.                                               *)
(***************************************************************************)
EXTENDS Integers, Sequences, FiniteSets, TLC

VARIABLES
    num_points,      \* st.number_input("Number of beacons:")
    beacons,         \* the e{i}/n{i} widget values, a sequence of <<e, n>>
    parcel_plotted,  \* st.session_state.parcel_plotted
    parcel_area,     \* st.session_state.parcel_area (hundredths of m2)
    utm_coords,      \* st.session_state.utm_coords (<< >>: key not set)
    pressed,         \* st.button("Plot Parcel") returned True in the last run
    success,         \* the st.success message of the last run: << >> or <<area>>
    rendered,        \* the render block's output of the last run: << >> or <<r>>
    failed,          \* the last run ended in an uncaught exception
    runs,            \* script runs of the Parcel Plotter so far
    lga_gdf,         \* the cached boundary dataset (load_lga_data)
    has_name_col,    \* the dataset has a column whose name contains "NAME"
    lga_query,       \* the point handed to lga_gdf.contains in the last run
    lga_result       \* what the last Find LGA run showed

vars == <<num_points, beacons, parcel_plotted, parcel_area, utm_coords,
          pressed, success, rendered, failed, runs,
          lga_gdf, has_name_col, lga_query, lga_result>>

parcelVars == <<num_points, beacons, parcel_plotted, parcel_area, utm_coords,
                pressed, success, rendered, failed, runs>>

lgaVars == <<lga_gdf, has_name_col, lga_query, lga_result>>

----------------------------------------------------------------------------
(* Bounds of the model                                                     *)

MaxCoord == 1

MaxBeacons == 4

MaxRuns == 5

NumCells == 3

MaxRegions == 2

(* Program constants                                                       *)

MinBeacons == 3

Cent == 100

Deg == 1000000

Coord == 0..MaxCoord

PointSet == Coord \X Coord

Origin == <<0, 0>>

Abs(x) == IF x < 0 THEN -x ELSE x

----------------------------------------------------------------------------
(* Plot Parcel: ring closure and area                                      *)

CloseRingAlways(coords) == Append(coords, coords[1])

\* if utm_coords[0] != utm_coords[-1]: utm_coords.append(utm_coords[0])
CloseRing(coords) ==
    IF coords[1] # coords[Len(coords)] THEN Append(coords, coords[1]) ELSE coords

PolygonRaisesClosed3(coords) == Len(coords) < 4

\* Polygon(utm_coords) raises ValueError for fewer than 3 coordinate tuples.
PolygonRaises(coords) == Len(coords) < 3

\* The shell Polygon(utm_coords) builds: the first coordinate is repeated at
\* the end when the sequence is open or has only 3 coordinates.
PolygonShell(coords) ==
    IF Len(coords) = 3 \/ coords[1] # coords[Len(coords)]
    THEN Append(coords, coords[1])
    ELSE coords

RECURSIVE SumTo(_, _)
SumTo(f, k) == IF k = 0 THEN 0 ELSE f[k] + SumTo(f, k - 1)

\* Twice the signed area of a closed shell, as the geometry engine sums it:
\* sum over the inner vertices of (x_i - x_0) * (y_{i-1} - y_{i+1}).
ShellSum(r) ==
    LET m == Len(r)
        t == [k \in 1..m |->
                IF k = 1 \/ k = m THEN 0
                ELSE (r[k][1] - r[1][1]) * (r[k - 1][2] - r[k + 1][2])]
    IN  SumTo(t, m)

PolygonAreaSigned(coords) == (ShellSum(PolygonShell(coords)) * Cent) \div 2

\* polygon.area, in hundredths of a square metre.
PolygonArea(coords) == (Abs(ShellSum(PolygonShell(coords))) * Cent) \div 2

----------------------------------------------------------------------------
(* Computation sheet: distance, bearing, angle                             *)

\* floor(sqrt(n)) for n >= 0.
RECURSIVE ISqrt(_)
ISqrt(n) ==
    IF n < 2 THEN n
    ELSE LET s == 2 * ISqrt(n \div 4)
         IN  IF (s + 1) * (s + 1) <= n THEN s + 1 ELSE s

\* f"{x:.2f}" of the square root of the whole number d2, in hundredths:
\* sqrt rounded to the nearest hundredth.
SqrtCent(d2) == (ISqrt(4 * Cent * Cent * d2) + 1) \div 2

\* f"{dist:.2f}" with dist = compute_distance(p1, p2)
\*                         = sqrt((p2[0]-p1[0])**2 + (p2[1]-p1[1])**2)
compute_distance(p1, p2) ==
    SqrtCent((p2[1] - p1[1]) * (p2[1] - p1[1]) + (p2[2] - p1[2]) * (p2[2] - p1[2]))

\* degrees(atan(a / b)) in micro-degrees for whole numbers 0 <= a <= b, b > 0.
\* The table covers the ratios that edges with |dx|, |dy| <= 2 produce; no
\* other ratio is defined.
AtanDeg(a, b) ==
    CASE a = 0     -> 0
      [] a = b     -> 45 * Deg
      [] 2 * a = b -> 26565051

\* The angle of the direction (|y|, |x|) from the x axis, within [0, 90].
FirstQuadrant(ay, ax) ==
    IF ay = 0 THEN 0
    ELSE IF ay <= ax THEN AtanDeg(ay, ax)
    ELSE 90 * Deg - AtanDeg(ax, ay)

\* degrees(atan2(y, x)) in micro-degrees, within (-180, 180]; atan2(0, 0) = 0.
Atan2Deg(y, x) ==
    LET q == FirstQuadrant(Abs(y), Abs(x))
        a == IF x >= 0 THEN q ELSE 180 * Deg - q
    IN  IF y >= 0 THEN a ELSE -a

\* compute_bearing(p1, p2) = (degrees(atan2(p2[0]-p1[0], p2[1]-p1[1])) + 360) % 360
compute_bearing(p1, p2) ==
    (Atan2Deg(p2[1] - p1[1], p2[2] - p1[2]) + 360 * Deg) % (360 * Deg)

\* f"{x:.2f}" of an angle held in micro-degrees, in hundredths of a degree.
FmtAngle(x) == (x + (Deg \div Cent) \div 2) \div (Deg \div Cent)

\* f"{x:.2f}" of a whole number of metres, in hundredths.
FmtCoord(x) == x * Cent

Header == <<"Point ID", "Easting", "Northing", "Distance (m)", "Bearing", "Angle">>

EdgeCountOpen(coords) == Len(coords) - 2

\* n = len(coords) - 1
EdgeCount(coords) == Len(coords) - 1

\* bearings, as the first loop of the computation sheet appends them.
Bearings(coords) ==
    [k \in 1..EdgeCount(coords) |-> compute_bearing(coords[k], coords[k + 1])]

\* table_data after the first loop: the header, then one row per
\* i in range(n), n = len(coords) - 1, with an empty angle cell.
TableRows(coords) ==
    <<Header>> \o
    [k \in 1..EdgeCount(coords) |->
        <<k, FmtCoord(coords[k][1]), FmtCoord(coords[k][2]),
          compute_distance(coords[k], coords[k + 1]),
          FmtAngle(compute_bearing(coords[k], coords[k + 1])),
          << >> >>]

\* The rows the second loop writes: for i in range(1, n), Python index i of
\* table_data (the header is index 0), which is position i + 1 here.
AngleRange(n) == 1..(n - 1)

\* table_data after the second loop:
\*   table_data[i][5] = f"{(bearings[i]-bearings[i-1])%360:.2f}"
\* Python bearings[i] is b[i + 1] here.
TableData(coords) ==
    LET n == EdgeCount(coords)
        b == Bearings(coords)
        t == TableRows(coords)
    IN  [j \in 1..Len(t) |->
            IF (j - 1) \in AngleRange(n)
            THEN [t[j] EXCEPT ![6] =
                    <<FmtAngle((b[j] - b[j - 1]) % (360 * Deg))>>]
            ELSE t[j]]

\* What the render block shows from the session state: the ring drawn on the
\* map and the sketch plan, the area text, and the computation sheet's table
\* (built only if coords and len(coords) > 1).
Render(coords, area) ==
    [ring  |-> coords,
     area  |-> area,
     table |-> IF Len(coords) > 1 THEN TableData(coords) ELSE << >>]

----------------------------------------------------------------------------
(* Parcel Plotter: the script runs                                         *)

\* The widget values a session can hold: num_points beacons (min_value=3),
\* each coordinate field a number of the model's range.
Rings == UNION {[1..k -> PointSet] : k \in MinBeacons..MaxBeacons}

\* if "parcel_plotted" not in st.session_state: ... = False
\* if "parcel_area" not in st.session_state: ... = 0
FreshSession ==
    /\ parcel_plotted = FALSE
    /\ parcel_area = 0
    /\ utm_coords = << >>
    /\ pressed = FALSE
    /\ success = << >>
    /\ rendered = << >>
    /\ failed = FALSE

\* The Finder's state while the Parcel Plotter is the selected tool.
NoLGA ==
    /\ lga_gdf = << >>
    /\ has_name_col = FALSE
    /\ lga_query = 0
    /\ lga_result = [matched |-> FALSE, name |-> <<"", 0>>, polygons |-> << >>]

\* The first run of the Parcel Plotter: three beacons, every number_input at
\* its default 0.00, nothing in the session state.
Init ==
    /\ num_points = MinBeacons
    /\ beacons = [i \in 1..MinBeacons |-> Origin]
    /\ FreshSession
    /\ runs = 0
    /\ NoLGA

\* The block under "if st.session_state.parcel_plotted:" of a run.
RenderBlock(plotted, coords, area) ==
    IF plotted THEN <<Render(coords, area)>> ELSE << >>

\* A run in which st.button("Plot Parcel") returns True.  The handler closes
\* the ring, sets parcel_plotted and utm_coords, builds the Polygon, stores
\* its area and shows the success message; the render block follows in the
\* same run.  An exception from Polygon ends the run after the first two
\* assignments.
PlotParcel ==
    /\ runs < MaxRuns
    /\ LET coords == CloseRing(beacons)
       IN  /\ parcel_plotted' = TRUE
           /\ utm_coords' = coords
           /\ IF PolygonRaises(coords)
              THEN /\ parcel_area' = parcel_area
                   /\ success' = << >>
                   /\ rendered' = << >>
                   /\ failed' = TRUE
              ELSE /\ parcel_area' = PolygonArea(coords)
                   /\ success' = <<PolygonArea(coords)>>
                   /\ rendered' = RenderBlock(TRUE, coords, PolygonArea(coords))
                   /\ failed' = FALSE
    /\ pressed' = TRUE
    /\ runs' = runs + 1
    /\ UNCHANGED <<num_points, beacons>>
    /\ UNCHANGED lgaVars

NoPressRunTransient ==
    /\ pressed' = FALSE
    /\ success' = << >>
    /\ failed' = FALSE
    /\ rendered' = << >>
    /\ runs' = runs + 1
    /\ UNCHANGED <<parcel_plotted, parcel_area, utm_coords>>
    /\ UNCHANGED lgaVars

\* What a run without a press of Plot Parcel does: the handler is skipped,
\* the render block shows what the session state holds.
NoPressRun ==
    /\ pressed' = FALSE
    /\ success' = << >>
    /\ failed' = FALSE
    /\ rendered' = RenderBlock(parcel_plotted, utm_coords, parcel_area)
    /\ runs' = runs + 1
    /\ UNCHANGED <<parcel_plotted, parcel_area, utm_coords>>
    /\ UNCHANGED lgaVars

\* A click on one of the download buttons: a rerun with the same inputs.
Rerun ==
    /\ runs < MaxRuns
    /\ UNCHANGED <<num_points, beacons>>
    /\ NoPressRun

\* The user changes the easting field of beacon i: a rerun without a press.
SetEasting(i, v) ==
    /\ runs < MaxRuns
    /\ i \in 1..num_points
    /\ v # beacons[i][1]
    /\ beacons' = [beacons EXCEPT ![i] = <<v, beacons[i][2]>>]
    /\ UNCHANGED num_points
    /\ NoPressRun

\* The user changes the northing field of beacon i: a rerun without a press.
SetNorthing(i, v) ==
    /\ runs < MaxRuns
    /\ i \in 1..num_points
    /\ v # beacons[i][2]
    /\ beacons' = [beacons EXCEPT ![i] = <<beacons[i][1], v>>]
    /\ UNCHANGED num_points
    /\ NoPressRun

\* The user changes the number of beacons: fields that disappear lose their
\* value, new fields start at the default; a rerun without a press.
SetNumPoints(k) ==
    /\ runs < MaxRuns
    /\ k # num_points
    /\ num_points' = k
    /\ beacons' = [i \in 1..k |-> IF i <= num_points THEN beacons[i] ELSE Origin]
    /\ NoPressRun

Next ==
    \/ PlotParcel
    \/ Rerun
    \/ \E i \in 1..MaxBeacons, v \in Coord : SetEasting(i, v)
    \/ \E i \in 1..MaxBeacons, v \in Coord : SetNorthing(i, v)
    \/ \E k \in MinBeacons..MaxBeacons : SetNumPoints(k)

\* A session of the Parcel Plotter from its first run.
Spec == Init /\ [][Next]_vars

\* The beacons as the user has typed them, before Plot Parcel has ever been
\* pressed, with one run left: the press itself.
InitPlot ==
    /\ num_points \in MinBeacons..MaxBeacons
    /\ beacons \in [1..num_points -> PointSet]
    /\ FreshSession
    /\ runs = MaxRuns - 1
    /\ NoLGA

NextPlot == PlotParcel

\* One press of Plot Parcel on every ring of the model's range.
SpecPlot == InitPlot /\ [][NextPlot]_vars

----------------------------------------------------------------------------
(* Nigeria LGA Finder                                                      *)

\* The places a transformed point (lon, lat) can fall in.
Cells == 1..NumCells

\* A polygon of the dataset, by the cells it covers.
Polygons == {lo..hi : lo \in Cells, hi \in Cells} \ {{}}

\* A feature's geometry: a Polygon, or a MultiPolygon of two disjoint parts.
Geometries ==
    {[type |-> "Polygon", parts |-> <<g>>] : g \in Polygons}
    \cup
    {[type |-> "MultiPolygon", parts |-> <<g, h>>] :
        <<g, h>> \in {pr \in Polygons \X Polygons :
                        \A a \in pr[1], b \in pr[2] : a < b}}

\* The value of the first "NAME" column in row k of the dataset.
RowName(k) == <<"LGA", k>>

Unknown == <<"Unknown", 0>>

NoMatch == [matched |-> FALSE, name |-> <<"", 0>>, polygons |-> << >>]

\* geometry.contains(point) of one row.
Contains(region, pt) == \E i \in 1..Len(region.parts) : pt \in region.parts[i]

\* The index of match: the rows of lga_gdf whose geometry contains the point,
\* in dataset order.  match = lga_gdf[lga_gdf.contains(point)]
RECURSIVE MatchFrom(_, _, _)
MatchFrom(gdf, pt, k) ==
    IF k > Len(gdf) THEN << >>
    ELSE IF Contains(gdf[k], pt) THEN <<k>> \o MatchFrom(gdf, pt, k + 1)
    ELSE MatchFrom(gdf, pt, k + 1)

Match(gdf, pt) == MatchFrom(gdf, pt, 1)

\* polygon_data: for every feature of match.to_json(), its polygon when it is
\* a Polygon, each of its parts when it is a MultiPolygon.
RECURSIVE PolygonData(_, _)
PolygonData(gdf, match) ==
    IF match = << >> THEN << >>
    ELSE gdf[Head(match)].parts \o PolygonData(gdf, Tail(match))

\* lga_name = match.iloc[0][name_cols[0]] if name_cols else "Unknown"
LgaName(match, named) == IF named THEN RowName(match[1]) ELSE Unknown

\* A run of the Nigeria LGA Finder in which "Find LGA" is pressed for a point
\* that transforms into cell pt.
FindLGA(pt) ==
    /\ lga_query' = pt
    /\ LET match == Match(lga_gdf, pt)
       IN  lga_result' =
             IF match # << >>
             THEN [matched  |-> TRUE,
                   name     |-> LgaName(match, has_name_col),
                   polygons |-> PolygonData(lga_gdf, match)]
             ELSE NoMatch
    /\ UNCHANGED <<lga_gdf, has_name_col>>
    /\ UNCHANGED parcelVars

\* The Finder after load_lga_data, before any query: some dataset of one to
\* MaxRegions features.
InitLGA ==
    /\ lga_gdf \in UNION {[1..k -> Geometries] : k \in 1..MaxRegions}
    /\ has_name_col \in BOOLEAN
    /\ lga_query = 0
    /\ lga_result = NoMatch
    /\ num_points = MinBeacons
    /\ beacons = [i \in 1..MinBeacons |-> Origin]
    /\ FreshSession
    /\ runs = 0

NextLGA == \E pt \in Cells : FindLGA(pt)

SpecLGA == InitLGA /\ [][NextLGA]_vars

----------------------------------------------------------------------------
(* Reference definitions of the properties                                 *)

\* The planar shoelace sum of a closed ring: sum of x_i*y_{i+1} - x_{i+1}*y_i.
ShoelaceSum(r) ==
    LET t == [k \in 1..(Len(r) - 1) |->
                r[k][1] * r[k + 1][2] - r[k + 1][1] * r[k][2]]
    IN  SumTo(t, Len(r) - 1)

\* |shoelace sum| / 2, in hundredths of a square metre.
ShoelaceArea(r) == (Abs(ShoelaceSum(r)) * Cent) \div 2

Reverse(s) == [k \in 1..Len(s) |-> s[Len(s) + 1 - k]]

\* s with its starting vertex moved k places on.
Rotate(s, k) == [j \in 1..Len(s) |-> s[((j - 1 + k) % Len(s)) + 1]]

\* Twice the signed area of the triangle a, b, c.
Orient(a, b, c) ==
    (b[1] - a[1]) * (c[2] - a[2]) - (b[2] - a[2]) * (c[1] - a[1])

\* Segments a-b and c-d cross at a point interior to both.
Cross(a, b, c, d) ==
    /\ Orient(a, b, c) * Orient(a, b, d) < 0
    /\ Orient(c, d, a) * Orient(c, d, b) < 0

\* Two non-adjacent edges of the closed ring r cross.
SelfIntersecting(r) ==
    LET n == Len(r) - 1
    IN  \E i \in 1..n, j \in 1..n :
            /\ i + 1 < j
            /\ ~(i = 1 /\ j = n)
            /\ Cross(r[i], r[i + 1], r[j], r[j + 1])

DistinctPoints(s) == Cardinality({s[k] : k \in 1..Len(s)})

\* c is sqrt(d2) rounded to hundredths: c - 1/2 <= 100*sqrt(d2) < c + 1/2.
IsRoundedSqrt(c, d2) ==
    \/ c = 0 /\ d2 = 0
    \/ /\ c >= 1
       /\ (2 * c - 1) * (2 * c - 1) <= 4 * Cent * Cent * d2
       /\ 4 * Cent * Cent * d2 < (2 * c + 1) * (2 * c + 1)

\* b (hundredths of a degree) lies where the clockwise angle from the
\* northing axis to the direction (dx, dy) lies: on the axis or diagonal the
\* direction is on, or strictly inside its octant.
InOctant(b, dx, dy) ==
    LET ax == Abs(dx)
        ay == Abs(dy)
        q  == CASE dx >= 0 /\ dy > 0  -> 0
                [] dx > 0  /\ dy <= 0 -> 90 * Cent
                [] dx <= 0 /\ dy < 0  -> 180 * Cent
                [] dx < 0  /\ dy >= 0 -> 270 * Cent
                [] OTHER              -> 0
        \* the part of the quarter turn already swept, by the leg ratio
        u  == IF (dx >= 0 /\ dy > 0) \/ (dx <= 0 /\ dy < 0) THEN ax ELSE ay
        w  == IF (dx >= 0 /\ dy > 0) \/ (dx <= 0 /\ dy < 0) THEN ay ELSE ax
    IN  CASE dx = 0 /\ dy = 0 -> b = 0
          [] u = 0            -> b = q
          [] u = w            -> b = q + 45 * Cent
          [] u < w            -> q < b /\ b < q + 45 * Cent
          [] OTHER            -> q + 45 * Cent < b /\ b < q + 90 * Cent

\* The unsigned angle, in micro-degrees, between the edge arriving at vertex
\* v of the closed ring r (n edges, cyclic) and the edge leaving it; 0 when
\* one of the two edges has no length.
UnsignedTurn(r, v) ==
    LET n    == Len(r) - 1
        prev == IF v = 1 THEN n ELSE v - 1
        din  == compute_bearing(r[prev], r[prev + 1])
        dout == compute_bearing(r[v], r[v + 1])
        d    == (dout - din) % (360 * Deg)
    IN  IF r[prev] = r[prev + 1] \/ r[v] = r[v + 1] THEN 0
        ELSE IF d <= 180 * Deg THEN d ELSE 360 * Deg - d

\* The first row of the dataset, in load order, that contains the point.
FirstContaining(gdf, pt) ==
    CHOOSE k \in 1..Len(gdf) :
        /\ Contains(gdf[k], pt)
        /\ \A j \in 1..(k - 1) : ~Contains(gdf[j], pt)

----------------------------------------------------------------------------
(* Properties                                                              *)

\* C1: a ring in which two non-adjacent edges cross is rejected: after Plot
\* Parcel is pressed on it, parcel_plotted is not true and the run shows no
\* success message, no area and no traverse.
C1_SelfIntersectingRejected ==
    (pressed /\ SelfIntersecting(CloseRing(beacons)))
        => (~parcel_plotted /\ success = << >> /\ rendered = << >>)

\* C2: after Plot Parcel the stored ring is closed (first point = last
\* point), it is the input with at most one copy of the first point
\* appended, nothing is appended to an input that is already closed, and
\* closing the stored ring again leaves it unchanged.
C2_ClosureIdempotent ==
    pressed =>
        /\ utm_coords[1] = utm_coords[Len(utm_coords)]
        /\ utm_coords \in {beacons, Append(beacons, beacons[1])}
        /\ (beacons[1] = beacons[Len(beacons)] => utm_coords = beacons)
        /\ CloseRing(utm_coords) = utm_coords

\* C2 witness: Plot Parcel was pressed on an open ring, and the stored ring
\* is the input with its first point appended.
C2_Witness ==
    /\ pressed
    /\ beacons[1] # beacons[Len(beacons)]
    /\ utm_coords = Append(beacons, beacons[1])
    /\ Len(utm_coords) = Len(beacons) + 1

\* C3: the area Plot Parcel reports is the shoelace magnitude
\* |sum(x_i*y_{i+1} - x_{i+1}*y_i)|/2 of the stored closed ring; it is never
\* negative; and Plot Parcel reports the same area for the input with its
\* vertex order reversed and for the input started at any other vertex.
C3_AreaShoelace ==
    pressed =>
        /\ parcel_area = ShoelaceArea(utm_coords)
        /\ success = <<parcel_area>>
        /\ parcel_area >= 0
        /\ PolygonArea(CloseRing(Reverse(beacons))) = parcel_area
        /\ \A k \in 1..(Len(beacons) - 1) :
               PolygonArea(CloseRing(Rotate(beacons, k))) = parcel_area

\* C3 witness: Plot Parcel was pressed on a simple ring of positive area
\* whose reversal is a different vertex sequence.
C3_Witness ==
    /\ pressed
    /\ parcel_area > 0
    /\ ~SelfIntersecting(utm_coords)
    /\ DistinctPoints(beacons) = Len(beacons)
    /\ Reverse(beacons) # beacons

\* C4: every data row of the computation sheet carries an angle, the row of
\* the closing vertex included: no angle cell is left empty.
C4_EveryVertexHasAngle ==
    rendered # << >> =>
        \A j \in 2..Len(rendered[1].table) : rendered[1].table[j][6] # << >>

\* C5: the angle recorded in the row of a vertex is the unsigned angle
\* between the edge arriving at that vertex and the edge leaving it, a value
\* in [0, 180] degrees, 0 when either edge has no length.
C5_UnsignedTurningAngle ==
    rendered # << >> =>
        \A j \in 2..Len(rendered[1].table) :
            LET cell == rendered[1].table[j][6]
            IN  cell # << >> =>
                    /\ cell[1] = FmtAngle(UnsignedTurn(rendered[1].ring, j - 1))
                    /\ cell[1] >= 0
                    /\ cell[1] <= 180 * Cent

\* C6: the computation sheet has exactly one data row per edge of the stored
\* closed ring, in ring order: for a ring of n+1 points there are n rows, row
\* i carries point id i and the coordinates of vertex i, its distance and
\* bearing are those of the edge from vertex i to vertex i+1, the last row's
\* edge ends at the first vertex, and every bearing is in [0, 360).
C6_OneRecordPerEdge ==
    rendered # << >> =>
        LET r == rendered[1].ring
            t == rendered[1].table
            n == Len(r) - 1
        IN  /\ r = utm_coords
            /\ r[n + 1] = r[1]
            /\ Len(t) = n + 1
            /\ \A i \in 1..n :
                 LET row == t[i + 1]
                     dx  == r[i + 1][1] - r[i][1]
                     dy  == r[i + 1][2] - r[i][2]
                 IN  /\ row[1] = i
                     /\ row[2] = r[i][1] * Cent
                     /\ row[3] = r[i][2] * Cent
                     /\ IsRoundedSqrt(row[4], dx * dx + dy * dy)
                     /\ row[5] = FmtAngle(compute_bearing(r[i], r[i + 1]))
                     /\ InOctant(row[5], dx, dy)
                     /\ row[5] >= 0
                     /\ row[5] < 360 * Cent

\* C6 witness: a sheet was rendered for a ring of four distinct vertices
\* whose closing edge has a length: four rows, the last one back to vertex 1.
C6_Witness ==
    /\ rendered # << >>
    /\ Len(rendered[1].ring) = 5
    /\ DistinctPoints(rendered[1].ring) = 4
    /\ Len(rendered[1].table) = 5
    /\ rendered[1].table[5][4] > 0

\* C7: a containment query resolves to the first containing Region in load
\* order: the name shown and the geometry handed on for rendering are those
\* of that Region and of no other; with no containing Region the query
\* reports no match.
C7_FirstMatchWins ==
    lga_query # 0 =>
        IF \E k \in 1..Len(lga_gdf) : Contains(lga_gdf[k], lga_query)
        THEN LET first == FirstContaining(lga_gdf, lga_query)
             IN  /\ lga_result.matched
                 /\ has_name_col => lga_result.name = RowName(first)
                 /\ lga_result.polygons = lga_gdf[first].parts
        ELSE lga_result = NoMatch

\* C8: Plot Parcel on a ring with fewer than 3 distinct points never ends
\* with parcel_plotted true and a success/area result for that ring.
C8_DegenerateRejected ==
    (pressed /\ DistinctPoints(beacons) < 3)
        => ~(parcel_plotted /\ success # << >>)

\* C9 as stated: what a run renders is computed from the ring submitted in
\* that run; a run in which Plot Parcel is not pressed renders nothing, and
\* nothing rendered belongs to a ring other than the current inputs' ring.
C9_TransientResult ==
    /\ ~pressed => rendered = << >>
    /\ rendered # << >> => rendered[1].ring = CloseRing(beacons)

\* C9 as amended: the parcel result is kept in the session state.  Nothing
\* is rendered before the first press; a run in which Plot Parcel is pressed
\* renders the closed ring, the shoelace area and the traverse table of the
\* ring submitted in that run; a run without a press renders again exactly
\* what the previous run rendered, whatever the beacon inputs now hold.
C9_PersistentResult ==
    /\ rendered = << >>
    /\ [][IF pressed'
          THEN rendered' = <<[ring  |-> CloseRing(beacons'),
                              area  |-> ShoelaceArea(CloseRing(beacons')),
                              table |-> TableData(CloseRing(beacons'))]>>
          ELSE rendered' = rendered]_vars

\* C9 witness: a run without a press, after the beacon inputs were changed,
\* renders the ring (of positive area) of an earlier press.
C9_Witness ==
    /\ ~pressed
    /\ rendered # << >>
    /\ rendered[1].ring # CloseRing(beacons)
    /\ rendered[1].area > 0
    /\ rendered[1].ring = utm_coords

\* C10: parcel_plotted starts false with parcel_area 0, becomes true only in
\* a run in which Plot Parcel is pressed and never reverts to false; and
\* whenever parcel_plotted is true, a stored ring exists, is closed, and
\* parcel_area is the area of exactly that ring.
C10_SessionConsistent ==
    /\ ~parcel_plotted /\ parcel_area = 0
    /\ [][/\ parcel_plotted => parcel_plotted'
          /\ (~parcel_plotted /\ parcel_plotted') => pressed']_vars
    /\ [](parcel_plotted =>
            /\ utm_coords # << >>
            /\ utm_coords[1] = utm_coords[Len(utm_coords)]
            /\ parcel_area = ShoelaceArea(utm_coords))

\* C10 witness: the session holds a plotted ring of positive area, stored by
\* a press in an earlier run, while the beacon inputs have moved on.
C10_Witness ==
    /\ parcel_plotted
    /\ ~pressed
    /\ parcel_area > 0
    /\ utm_coords # << >>
    /\ utm_coords # CloseRing(beacons)

====
